---- MODULE Spec2Model ----
(***************************************************************************)
(* CinemaAI: the content-based recommender (core/recommender.py) and the   *)
(* Flask routes that drive it (api/app.py).                                *)
(*                                                                         *)
(* Texts are sequences of pieces: a piece is a whitespace-delimited word   *)
(* or the single blank SP, so the empty string is <<>> and a string of     *)
(* blanks is a non-empty sequence of SP.  Similarities are fixed-point     *)
(* numbers, floor(Scale * cosine); catalog positions are 1-based.          *)
(***************************************************************************)
EXTENDS Integers, Sequences, FiniteSets, TLC

\* ---------------------------------------------------------------- bounds
MaxMovies == 3
MaxSelected == 2
MaxTopN == 2
Scale == 1000
MeanPrecision == 1000
MaxRouteSelected == 1
MaxRouteFetched == 1

\* ------------------------------------------------------ program constants
MaxFeaturesCap == 5000
MaxFeaturesFloor == 1
RouteNumRecommendations == 10
DefaultNumRecommendations == 5
DEFAULT_NUM_RECOMMENDATIONS == 10
MAX_SELECTIONS == 10
MIN_SELECTIONS_FOR_RECOMMENDATIONS == 3
WideFetchLen == 7
MaxUiCap == 2

VARIABLES
    movies_df,          \* recommender.movies_df: None or a DataFrame
    similarity_matrix,  \* recommender.similarity_matrix: None or N x N
    vectorizer,         \* recommender.vectorizer
    argsort_ties,       \* how the numpy build orders equal keys in argsort
    ret,                \* the call that has returned to the sequential caller
    threads,            \* the request threads of the Flask server
    ui,                 \* the CinemaCloneAppGradio instance and its widgets
    server,             \* the thread that runs start_flask_server
    run                 \* the main thread of run.py

vars ==
    <<movies_df, similarity_matrix, vectorizer, argsort_ties, ret, threads, ui,
      server, run>>

\* ------------------------------------------------------------- utilities
SP == " "

Range(s) == {s[i] : i \in 1..Len(s)}

SeqsUpTo(S, n) == UNION {[1..k -> S] : k \in 0..n}

Min(a, b) == IF a <= b THEN a ELSE b

Reverse(s) == [i \in 1..Len(s) |-> s[Len(s) + 1 - i]]

Indices(n) == [i \in 1..n |-> i]

RECURSIVE SumSeq(_)
SumSeq(s) == IF s = <<>> THEN 0 ELSE Head(s) + SumSeq(Tail(s))

RECURSIVE ISqrtIn(_, _, _)
ISqrtIn(n, lo, hi) ==
    IF lo >= hi THEN lo
    ELSE LET mid == (lo + hi + 1) \div 2
         IN  IF mid * mid <= n THEN ISqrtIn(n, mid, hi)
                               ELSE ISqrtIn(n, lo, mid - 1)

\* floor(sqrt(n)) for 0 <= n <= Scale^2
ISqrt(n) == ISqrtIn(n, 0, Scale)

\* ------------------------------------------------- None-able Python values
NoneDF == [isNone |-> TRUE, rows |-> <<>>]
DataFrame(rows) == [isNone |-> FALSE, rows |-> rows]
IsEmptyDF(df) == Len(df.rows) = 0

NoneMatrix == [isNone |-> TRUE, m |-> <<>>]
Matrix(m) == [isNone |-> FALSE, m |-> m]

\* CountVectorizer(stop_words='english') as constructed in __init__
InitVectorizer ==
    [has_max |-> FALSE, max_features |-> 0, fitted |-> FALSE, vocabulary |-> {}]

\* ------------------------------------------- CountVectorizer's tokenizer
\* lower-casing and the token pattern (?u)\b\w\w+\b applied to one word
RawTokens ==
    ("Action" :> <<"action">>) @@
    ("Adventure" :> <<"adventure">>) @@
    ("Crime" :> <<"crime">>) @@
    ("Christian" :> <<"christian">>) @@
    ("Bale" :> <<"bale">>) @@
    ("Michael" :> <<"michael">>) @@
    ("Caine" :> <<"caine">>) @@
    ("A" :> <<>>) @@
    ("young" :> <<"young">>) @@
    ("Bruce" :> <<"bruce">>) @@
    ("Wayne" :> <<"wayne">>) @@
    ("becomes" :> <<"becomes">>) @@
    ("Batman" :> <<"batman">>) @@
    ("to" :> <<"to">>) @@
    ("fight" :> <<"fight">>) @@
    ("crime" :> <<"crime">>) @@
    ("in" :> <<"in">>) @@
    ("Gotham." :> <<"gotham">>) @@
    ("Drama" :> <<"drama">>) @@
    ("Thriller" :> <<"thriller">>) @@
    ("Heath" :> <<"heath">>) @@
    ("Ledger" :> <<"ledger">>) @@
    ("faces" :> <<"faces">>) @@
    ("the" :> <<"the">>) @@
    ("Joker," :> <<"joker">>) @@
    ("a" :> <<>>) @@
    ("criminal" :> <<"criminal">>) @@
    ("mastermind." :> <<"mastermind">>) @@
    ("Tom" :> <<"tom">>) @@
    ("Hardy" :> <<"hardy">>) @@
    ("returns" :> <<"returns">>) @@
    ("save" :> <<"save">>) @@
    ("Gotham" :> <<"gotham">>) @@
    ("from" :> <<"from">>) @@
    ("Bane." :> <<"bane">>) @@
    ("Horror" :> <<"horror">>) @@
    ("Willem" :> <<"willem">>) @@
    ("Dafoe" :> <<"dafoe">>) @@
    ("Wall" :> <<"wall">>) @@
    ("Street" :> <<"street">>) @@
    ("banker" :> <<"banker">>) @@
    ("leads" :> <<"leads">>) @@
    ("double" :> <<"double">>) @@
    ("life" :> <<"life">>) @@
    ("as" :> <<"as">>) @@
    ("serial" :> <<"serial">>) @@
    ("killer." :> <<"killer">>) @@
    ("Sci-Fi" :> <<"sci", "fi">>) @@
    ("Jake" :> <<"jake">>) @@
    ("Gyllenhaal" :> <<"gyllenhaal">>) @@
    ("Maggie" :> <<"maggie">>) @@
    ("troubled" :> <<"troubled">>) @@
    ("teenager" :> <<"teenager">>) @@
    ("is" :> <<"is">>) @@
    ("plagued" :> <<"plagued">>) @@
    ("by" :> <<"by">>) @@
    ("visions" :> <<"visions">>) @@
    ("of" :> <<"of">>) @@
    ("man" :> <<"man">>) @@
    ("rabbit" :> <<"rabbit">>) @@
    ("costume." :> <<"costume">>)

\* the members of sklearn's English stop list that occur in the texts
StopWords == {"to", "in", "the", "from", "as", "is", "by", "of", "becomes"}

\* every token, in the alphabetical order CountVectorizer sorts features in
TermOrder ==
    <<"action", "adventure", "as", "bale", "bane", "banker", "batman",
      "becomes", "bruce", "by", "caine", "christian", "costume", "crime",
      "criminal", "dafoe", "double", "drama", "faces", "fi", "fight", "from",
      "gotham", "gyllenhaal", "hardy", "heath", "horror", "in", "is", "jake",
      "joker", "killer", "leads", "ledger", "life", "maggie", "man",
      "mastermind", "michael", "of", "plagued", "rabbit", "returns", "save",
      "sci", "serial", "street", "teenager", "the", "thriller", "to", "tom",
      "troubled", "visions", "wall", "wayne", "willem", "young">>

AlphaRankOf ==
    [t \in Range(TermOrder) |-> CHOOSE i \in 1..Len(TermOrder) : TermOrder[i] = t]

AlphaRank(t) == AlphaRankOf[t]

NotStopWord(t) == t \notin StopWords

\* the analyzer of CountVectorizer(stop_words='english') on one document
RECURSIVE Analyze(_)
Analyze(text) ==
    IF text = <<>> THEN <<>>
    ELSE (IF Head(text) = SP THEN <<>>
          ELSE SelectSeq(RawTokens[Head(text)], NotStopWord))
         \o Analyze(Tail(text))

\* str.split() of " ".join(corpus): the distinct whitespace-delimited words
SplitWords(corpus) ==
    (UNION {Range(corpus[i]) : i \in 1..Len(corpus)}) \ {SP}

\* any(corpus): some document is a non-empty string
AnyNonEmpty(corpus) == \E i \in 1..Len(corpus) : corpus[i] # <<>>

CountOf(t, terms) == Cardinality({k \in 1..Len(terms) : terms[k] = t})

\* the order of (-tfs).argsort() over the alphabetically sorted features
TermBefore(u, t, tf, ties) ==
    \/ tf[u] > tf[t]
    \/ /\ tf[u] = tf[t]
       /\ IF ties = "stable" THEN AlphaRank(u) < AlphaRank(t)
                             ELSE AlphaRank(u) > AlphaRank(t)

RECURSIVE TopTerms(_, _, _, _)
TopTerms(terms, tf, limit, ties) ==
    IF limit = 0 \/ terms = {} THEN {}
    ELSE LET first == CHOOSE t \in terms :
                          \A u \in terms : u = t \/ TermBefore(t, u, tf, ties)
         IN  {first} \cup TopTerms(terms \ {first}, tf, limit - 1, ties)

\* _limit_features: the `limit` terms of highest total count
LimitFeatures(terms, tf, limit, ties) ==
    IF Cardinality(terms) <= limit THEN terms
    ELSE TopTerms(terms, tf, limit, ties)

\* CountVectorizer(stop_words='english', max_features).fit_transform(corpus):
\* ValueError on an empty vocabulary, else the document-term counts
fit_transform(corpus, max_features, ties) ==
    LET docs == [i \in 1..Len(corpus) |-> Analyze(corpus[i])]
        terms == UNION {Range(docs[i]) : i \in 1..Len(corpus)}
        tf == [t \in terms |-> SumSeq([i \in 1..Len(corpus) |-> CountOf(t, docs[i])])]
        vocabulary == LimitFeatures(terms, tf, max_features, ties)
        columns == SelectSeq(TermOrder, LAMBDA t : t \in vocabulary)
    IN  IF terms = {}
        THEN [ValueError |-> TRUE, vocabulary |-> {}, shape0 |-> 0, shape1 |-> 0,
              X |-> <<>>]
        ELSE [ValueError |-> FALSE, vocabulary |-> vocabulary,
              shape0 |-> Len(corpus), shape1 |-> Len(columns),
              X |-> [i \in 1..Len(corpus) |->
                        [c \in 1..Len(columns) |-> CountOf(columns[c], docs[i])]]]

Dot(a, b) == SumSeq([c \in 1..Len(a) |-> a[c] * b[c]])

\* one entry of sklearn's cosine_similarity, 0 when either row has zero norm
Cosine(a, b) ==
    LET na == Dot(a, a)
        nb == Dot(b, b)
        d == Dot(a, b)
    IN  IF na = 0 \/ nb = 0 THEN 0
        ELSE ISqrt((d * d * Scale * Scale) \div (na * nb))

cosine_similarity(X) ==
    [i \in 1..Len(X) |-> [j \in 1..Len(X) |-> Cosine(X[i], X[j])]]

\* ------------------------------------------------------------ the catalog
\* f"{genres} {cast} {overview}"
JoinFeatures(genres, cast, overview) ==
    genres \o <<SP>> \o cast \o <<SP>> \o overview

\* the static catalog of prepare_movie_data
fallback_movies_data ==
    <<
       [id |-> "tt0372784", title |-> "Batman Begins",
        overview |-> <<"A", SP, "young", SP, "Bruce", SP, "Wayne", SP,
            "becomes", SP, "Batman", SP, "to", SP, "fight", SP, "crime", SP,
            "in", SP, "Gotham.">>,
        genres |-> <<"Action,", SP, "Adventure,", SP, "Crime">>,
        cast |-> <<"Christian", SP, "Bale,", SP, "Michael", SP, "Caine">>,
        has_combined_features |-> TRUE,
        combined_features |-> <<"Action", SP, "Adventure", SP, "Crime", SP,
            "Christian", SP, "Bale", SP, "Michael", SP, "Caine", SP, "A", SP,
            "young", SP, "Bruce", SP, "Wayne", SP, "becomes", SP, "Batman",
            SP, "to", SP, "fight", SP, "crime", SP, "in", SP, "Gotham.">>],
       [id |-> "tt0468569", title |-> "The Dark Knight",
        overview |-> <<"Batman", SP, "faces", SP, "the", SP, "Joker,", SP,
            "a", SP, "criminal", SP, "mastermind.">>,
        genres |-> <<"Action,", SP, "Crime,", SP, "Drama,", SP, "Thriller">>,
        cast |-> <<"Christian", SP, "Bale,", SP, "Heath", SP, "Ledger">>,
        has_combined_features |-> TRUE,
        combined_features |-> <<"Action", SP, "Crime", SP, "Drama", SP,
            "Thriller", SP, "Christian", SP, "Bale", SP, "Heath", SP,
            "Ledger", SP, "Batman", SP, "faces", SP, "the", SP, "Joker,", SP,
            "a", SP, "criminal", SP, "mastermind.">>],
       [id |-> "tt1345836", title |-> "The Dark Knight Rises",
        overview |-> <<"Batman", SP, "returns", SP, "to", SP, "save", SP,
            "Gotham", SP, "from", SP, "Bane.">>,
        genres |-> <<"Action,", SP, "Crime,", SP, "Thriller">>,
        cast |-> <<"Christian", SP, "Bale,", SP, "Tom", SP, "Hardy">>,
        has_combined_features |-> TRUE,
        combined_features |-> <<"Action", SP, "Crime", SP, "Thriller", SP,
            "Christian", SP, "Bale", SP, "Tom", SP, "Hardy", SP, "Batman",
            SP, "returns", SP, "to", SP, "save", SP, "Gotham", SP, "from",
            SP, "Bane.">>],
       [id |-> "tt0144084", title |-> "American Psycho",
        overview |-> <<"A", SP, "Wall", SP, "Street", SP, "banker", SP,
            "leads", SP, "a", SP, "double", SP, "life", SP, "as", SP, "a",
            SP, "serial", SP, "killer.">>,
        genres |-> <<"Crime,", SP, "Drama,", SP, "Horror">>,
        cast |-> <<"Christian", SP, "Bale,", SP, "Willem", SP, "Dafoe">>,
        has_combined_features |-> TRUE,
        combined_features |-> <<"Crime", SP, "Drama", SP, "Horror", SP,
            "Christian", SP, "Bale", SP, "Willem", SP, "Dafoe", SP, "A", SP,
            "Wall", SP, "Street", SP, "banker", SP, "leads", SP, "a", SP,
            "double", SP, "life", SP, "as", SP, "a", SP, "serial", SP,
            "killer.">>],
       [id |-> "tt0246578", title |-> "Donnie Darko",
        overview |-> <<"A", SP, "troubled", SP, "teenager", SP, "is", SP,
            "plagued", SP, "by", SP, "visions", SP, "of", SP, "a", SP, "man",
            SP, "in", SP, "a", SP, "rabbit", SP, "costume.">>,
        genres |-> <<"Drama,", SP, "Sci-Fi,", SP, "Thriller">>,
        cast |-> <<"Jake", SP, "Gyllenhaal,", SP, "Maggie", SP,
            "Gyllenhaal">>,
        has_combined_features |-> TRUE,
        combined_features |-> <<"Drama", SP, "Sci-Fi", SP, "Thriller", SP,
            "Jake", SP, "Gyllenhaal", SP, "Maggie", SP, "Gyllenhaal", SP,
            "A", SP, "troubled", SP, "teenager", SP, "is", SP, "plagued", SP,
            "by", SP, "visions", SP, "of", SP, "a", SP, "man", SP, "in", SP,
            "a", SP, "rabbit", SP, "costume.">>]
    >>

\* one OMDb response to the record prepare_movie_data derives from it
movie_info(movie) ==
    [id |-> IF movie.has_imdbID THEN movie.imdbID
            ELSE IF movie.has_Title THEN movie.Title
            ELSE "unknown_id",
     title |-> IF movie.has_Title THEN movie.Title ELSE "",
     overview |-> movie.Plot,
     genres |-> movie.Genre,
     cast |-> movie.Actors,
     has_combined_features |-> TRUE,
     combined_features |-> JoinFeatures(movie.Genre, movie.Actors, movie.Plot)]

\* PreparedRows with no fallback records
PreparedRowsNoFallback(fetched) ==
    [i \in 1..Len(fetched) |-> movie_info(fetched[i])]

\* the catalog prepare_movie_data installs for the responses fetch_movies got
PreparedRows(fetched) ==
    IF fetched = <<>> THEN fallback_movies_data
    ELSE [i \in 1..Len(fetched) |-> movie_info(fetched[i])]

\* ------------------------------------------------- build_similarity_matrix
\* the column is present when some record carries the key
HasFeatureColumn(rows) == \E i \in 1..Len(rows) : rows[i].has_combined_features

\* the column recreated from genres, cast and overview when it is missing
Backfill(rows) ==
    IF HasFeatureColumn(rows) THEN rows
    ELSE [i \in 1..Len(rows) |->
            [rows[i] EXCEPT !.has_combined_features = TRUE,
                            !.combined_features =
                                JoinFeatures(rows[i].genres, rows[i].cast,
                                             rows[i].overview)]]

\* Corpus keeping only the records whose text is not empty
CorpusNonEmptyOnly(rows) ==
    LET kept == SelectSeq(rows, LAMBDA row : row.has_combined_features
                                              /\ row.combined_features # <<>>)
    IN  [i \in 1..Len(kept) |-> kept[i].combined_features]

\* Corpus collected in the opposite order
CorpusReversed(rows) ==
    [i \in 1..Len(rows) |->
        IF rows[Len(rows) + 1 - i].has_combined_features
        THEN rows[Len(rows) + 1 - i].combined_features
        ELSE <<>>]

\* movies_df['combined_features'].fillna('').astype(str).tolist()
Corpus(rows) ==
    [i \in 1..Len(rows) |->
        IF rows[i].has_combined_features THEN rows[i].combined_features
        ELSE <<>>]

\* MaxFeatures without the floor
MaxFeaturesNoFloor(corpus) ==
    Min(MaxFeaturesCap, Cardinality(SplitWords(corpus)))

\* min(5000, number of distinct words), raised to 1 when it is 0
MaxFeatures(corpus) ==
    LET k == Min(MaxFeaturesCap, Cardinality(SplitWords(corpus)))
    IN  IF k = 0 THEN MaxFeaturesFloor ELSE k

\* EmptyCorpusPath returning without touching the matrix
EmptyCorpusPathStale(old) == [similarity_matrix |-> old, raised |-> FALSE]

\* the all-empty corpus: the matrix is set to None and the build returns
EmptyCorpusPath(old) == [similarity_matrix |-> NoneMatrix, raised |-> FALSE]

\* OnValueError leaving the matrix of the previous build in place
OnValueErrorStale(old) == [similarity_matrix |-> old, raised |-> FALSE]

\* OnValueError with no handler: the exception leaves the build
OnValueErrorUncaught(old) == [similarity_matrix |-> old, raised |-> TRUE]

\* except ValueError: the matrix is set to None
OnValueError(old) == [similarity_matrix |-> NoneMatrix, raised |-> FALSE]

\* movies_df None or empty: the matrix is set to None
NoCatalogPath(old) == [similarity_matrix |-> NoneMatrix, raised |-> FALSE]

\* ----------------------------------------------------- get_recommendations
\* NoIndexOrCatalog without the test of the matrix
NoIndexOrCatalogLax(df, sim) == df.isNone \/ IsEmptyDF(df)

\* the guard that returns [] at once
NoIndexOrCatalog(df, sim) == sim.isNone \/ df.isNone \/ IsEmptyDF(df)

\* movies_df[movies_df['id'].isin(ids)].index.tolist()
valid_selected_indices(rows, ids) ==
    SelectSeq(Indices(Len(rows)), LAMBDA i : rows[i].id \in Range(ids))

\* similarity_matrix[valid, :] raises IndexError for a row the matrix lacks
RowsInMatrix(m, valid) == \A k \in 1..Len(valid) : valid[k] <= Len(m)

\* np.mean(similarity_matrix[valid, :], axis=0); the mean of no rows is NaN
\* in every column, that is one key for all of them
avg_similarity_scores(m, valid) ==
    [j \in 1..Len(m) |->
        IF valid = <<>> THEN 0
        ELSE (SumSeq([k \in 1..Len(valid) |-> m[valid[k]][j]]) * MeanPrecision)
                 \div Len(valid)]

\* np.argsort(a): equal keys in index order in a stable build
ArgSort(a, ties) ==
    LET Before(k, j) ==
            \/ a[k] < a[j]
            \/ /\ a[k] = a[j]
               /\ IF ties = "stable" THEN k < j ELSE k > j
        Rank(j) == Cardinality({k \in 1..Len(a) : Before(k, j)})
    IN  [r \in 1..Len(a) |-> CHOOSE j \in 1..Len(a) : Rank(j) = r - 1]

\* sorted_movie_indices without the reversal
sorted_movie_indices_ascending(avg, ties) == ArgSort(avg, ties)

\* np.argsort(avg_similarity_scores)[::-1]
sorted_movie_indices(avg, ties) == Reverse(ArgSort(avg, ties))

\* LoopInit with seen_movie_ids starting empty
LoopInitUnseeded(ids) ==
    [k |-> 1, recommendations |-> <<>>, accepted |-> <<>>,
     seen_movie_ids |-> {}, broke |-> FALSE]

\* the locals of the loop before its first iteration
LoopInit(ids) ==
    [k |-> 1, recommendations |-> <<>>, accepted |-> <<>>,
     seen_movie_ids |-> Range(ids), broke |-> FALSE]

LoopDone(sorted, loc) == loc.broke \/ loc.k > Len(sorted)

\* `if idx >= len(self.movies_df)`: the boundary check
IndexBeyond(rows, sorted, loc) == sorted[loc.k] > Len(rows)

\* `continue`
LoopSkip(loc) == [loc EXCEPT !.k = @ + 1]

\* LoopBody that does not add the appended id to seen_movie_ids
LoopBodyNoSeenAdd(rows, sorted, n, loc) ==
    LET idx == sorted[loc.k]
    IN  IF rows[idx].id \notin loc.seen_movie_ids
        THEN [k |-> loc.k + 1,
              recommendations |-> Append(loc.recommendations, rows[idx]),
              accepted |-> Append(loc.accepted, idx),
              seen_movie_ids |-> loc.seen_movie_ids,
              broke |-> Len(loc.recommendations) + 1 >= n]
        ELSE [loc EXCEPT !.k = @ + 1]

\* LoopBody breaking on len(recommendations) > n
LoopBodyLateBreak(rows, sorted, n, loc) ==
    LET idx == sorted[loc.k]
    IN  IF rows[idx].id \notin loc.seen_movie_ids
        THEN [k |-> loc.k + 1,
              recommendations |-> Append(loc.recommendations, rows[idx]),
              accepted |-> Append(loc.accepted, idx),
              seen_movie_ids |-> loc.seen_movie_ids \cup {rows[idx].id},
              broke |-> Len(loc.recommendations) + 1 > n]
        ELSE [loc EXCEPT !.k = @ + 1]

\* the body of the loop for a position inside the catalog; `accepted` keeps
\* the catalog position of every record appended
LoopBody(rows, sorted, n, loc) ==
    LET idx == sorted[loc.k]
    IN  IF rows[idx].id \notin loc.seen_movie_ids
        THEN [k |-> loc.k + 1,
              recommendations |-> Append(loc.recommendations, rows[idx]),
              accepted |-> Append(loc.accepted, idx),
              seen_movie_ids |-> loc.seen_movie_ids \cup {rows[idx].id},
              broke |-> Len(loc.recommendations) + 1 >= n]
        ELSE [loc EXCEPT !.k = @ + 1]

\* one iteration of `for idx in sorted_movie_indices` against one catalog
LoopStep(rows, sorted, n, loc) ==
    IF IndexBeyond(rows, sorted, loc) THEN LoopSkip(loc)
    ELSE LoopBody(rows, sorted, n, loc)

RECURSIVE RunLoop(_, _, _, _)
RunLoop(rows, sorted, n, loc) ==
    IF LoopDone(sorted, loc) THEN loc
    ELSE RunLoop(rows, sorted, n, LoopStep(rows, sorted, n, loc))

Returned(value, accepted) ==
    [raised |-> FALSE, value |-> value, accepted |-> accepted]
Raised == [raised |-> TRUE, value |-> <<>>, accepted |-> <<>>]

\* NoValidSelection never taken
NoValidSelectionMissing(valid) == FALSE

\* `if not valid_selected_indices`: the early return of []
NoValidSelection(valid) == valid = <<>>

\* get_recommendations(ids, n) run to completion on one catalog and matrix
get_recommendations(df, sim, ids, n, ties) ==
    IF NoIndexOrCatalog(df, sim) THEN Returned(<<>>, <<>>)
    ELSE LET valid == valid_selected_indices(df.rows, ids)
         IN  IF NoValidSelection(valid) THEN Returned(<<>>, <<>>)
             ELSE IF ~RowsInMatrix(sim.m, valid) THEN Raised
             ELSE LET avg == avg_similarity_scores(sim.m, valid)
                      sorted == sorted_movie_indices(avg, ties)
                      loc == RunLoop(df.rows, sorted, n, LoopInit(ids))
                  IN  Returned(loc.recommendations, loc.accepted)

\* ------------------------------------------------------------------ inputs
Text(word) == <<word>>

\* records a caller installs as the catalog before build_similarity_matrix
MoviePool ==
    {[id |-> "m1", title |-> "One", overview |-> <<>>,
      genres |-> Text("Action"), cast |-> <<>>,
      has_combined_features |-> TRUE,
      combined_features |-> <<"Action">>],
     [id |-> "m2", title |-> "Two", overview |-> <<>>,
      genres |-> Text("Action"), cast |-> Text("Drama"),
      has_combined_features |-> TRUE,
      combined_features |-> <<"Action", SP, "Drama">>],
     [id |-> "m3", title |-> "Three", overview |-> <<>>,
      genres |-> Text("Drama"), cast |-> <<>>,
      has_combined_features |-> TRUE,
      combined_features |-> <<"Drama">>],
     [id |-> "m4", title |-> "Four", overview |-> <<>>,
      genres |-> <<>>, cast |-> <<>>,
      has_combined_features |-> TRUE,
      combined_features |-> <<>>]}

\* responses of the OMDb API (fetch_movie_by_title returns the JSON object)
OMDbPool ==
    {[has_imdbID |-> TRUE, imdbID |-> "m1", has_Title |-> TRUE, Title |-> "One",
      Genre |-> Text("Action"), Actors |-> <<>>, Plot |-> <<>>],
     [has_imdbID |-> FALSE, imdbID |-> "", has_Title |-> TRUE, Title |-> "m2",
      Genre |-> <<>>, Actors |-> <<>>, Plot |-> Text("the")],
     [has_imdbID |-> FALSE, imdbID |-> "", has_Title |-> TRUE, Title |-> "Four",
      Genre |-> <<>>, Actors |-> <<>>, Plot |-> <<>>]}

Catalogs == SeqsUpTo(MoviePool, MaxMovies)

\* records of which some were installed without the 'combined_features' key
SparsePool ==
    {[id |-> "m1", title |-> "One", overview |-> <<>>,
      genres |-> Text("Action"), cast |-> <<>>,
      has_combined_features |-> FALSE, combined_features |-> <<>>],
     [id |-> "m2", title |-> "Two", overview |-> <<>>,
      genres |-> Text("Action"), cast |-> Text("Drama"),
      has_combined_features |-> FALSE, combined_features |-> <<>>],
     [id |-> "m3", title |-> "Three", overview |-> <<>>,
      genres |-> Text("Drama"), cast |-> <<>>,
      has_combined_features |-> TRUE,
      combined_features |-> <<"Drama">>],
     [id |-> "m4", title |-> "Four", overview |-> <<>>,
      genres |-> <<>>, cast |-> <<>>,
      has_combined_features |-> FALSE, combined_features |-> <<>>]}

SparseCatalogs == SeqsUpTo(SparsePool, MaxMovies)

\* responses for WideFetchLen titles, each with an imdbID of its own
WideFetch ==
    [i \in 1..WideFetchLen |->
        [has_imdbID |-> TRUE,
         imdbID |-> "w" \o ToString(i),
         has_Title |-> TRUE, Title |-> "Wide",
         Genre |-> IF i % 2 = 1 THEN Text("Action") ELSE Text("Drama"),
         Actors |-> IF i <= 3 THEN Text("Drama") ELSE <<>>,
         Plot |-> <<>>]]

Fetches == SeqsUpTo(OMDbPool, MaxMovies) \cup {WideFetch}

SelectableIds == {"m1", "m2", "does-not-exist", "tt0372784"}

Selections == SeqsUpTo(SelectableIds, MaxSelected)

TopNs == 1..MaxTopN

\* selections and counts of the calls made on the larger catalogs
ScenarioSelections == {<<"tt0372784", "tt0468569">>, <<"w1">>}

ScenarioTopNs == 3..DefaultNumRecommendations

\* the ids a POST /api/recommend carries
RouteSelections == SeqsUpTo(SelectableIds, MaxRouteSelected) \ {<<>>}

\* what fetch_movies returns to a request thread
RouteFetches == SeqsUpTo(OMDbPool, MaxRouteFetched)

\* Python's None as the value of a JSON null
PyNone == "<None>"

\* responses whose titles carry markup, an ampersand, blanks at the ends or
\* null, with ids of their own
UiFetch ==
    <<[has_imdbID |-> TRUE, imdbID |-> "u1", has_Title |-> TRUE,
       Title |-> "One", Genre |-> Text("Action"), Actors |-> <<>>,
       Plot |-> <<>>],
      [has_imdbID |-> TRUE, imdbID |-> "u2", has_Title |-> TRUE,
       Title |-> "Two", Genre |-> Text("Action"), Actors |-> Text("Drama"),
       Plot |-> <<>>],
      [has_imdbID |-> TRUE, imdbID |-> "u3", has_Title |-> TRUE,
       Title |-> "<b>Three</b>", Genre |-> Text("Drama"), Actors |-> <<>>,
       Plot |-> <<>>],
      [has_imdbID |-> TRUE, imdbID |-> "u4", has_Title |-> TRUE,
       Title |-> "Tom & Jerry", Genre |-> Text("Action"),
       Actors |-> Text("Action"), Plot |-> <<>>],
      [has_imdbID |-> TRUE, imdbID |-> "u5", has_Title |-> TRUE,
       Title |-> PyNone, Genre |-> Text("Drama"), Actors |-> Text("Drama"),
       Plot |-> <<>>],
      [has_imdbID |-> TRUE, imdbID |-> "u6", has_Title |-> TRUE,
       Title |-> " Six ", Genre |-> Text("Drama"), Actors |-> <<>>,
       Plot |-> <<>>]>>

\* what fetch_movies returns behind the UI: nothing (the fallback catalog is
\* used) or the responses of UiFetch
UiFetches == {<<>>, UiFetch}

\* the ids the hidden textbox hands to handle_toggle_movie_selection
UiClicks == {"u1", "u2", "u3", " u1 ", " ", ""}

\* the try block: the matrix when the counts have rows and columns, else None
FitPath(fit) ==
    [similarity_matrix |->
        IF fit.shape0 > 0 /\ fit.shape1 > 0
        THEN Matrix(fit.similarity) ELSE NoneMatrix,
     raised |-> FALSE]

\* a vectorizer of `max_features` fitted on a corpus, and the cosine
\* similarities of its counts
Vectorized(corpus, max_features, ties) ==
    LET fit == fit_transform(corpus, max_features, ties)
    IN  [max_features |-> max_features, ValueError |-> fit.ValueError,
         vocabulary |-> fit.vocabulary, shape0 |-> fit.shape0,
         shape1 |-> fit.shape1,
         similarity |-> IF fit.ValueError THEN <<>>
                        ELSE cosine_similarity(fit.X)]

TieOrders == {"stable", "reversed"}

\* the corpora build_similarity_matrix can meet, each vectorized once
KnownCorpora ==
    {Corpus(Backfill(rows)) : rows \in (Catalogs \cup SparseCatalogs) \ {<<>>}}
        \cup {Corpus(Backfill(PreparedRows(fetched))) :
                 fetched \in Fetches \cup RouteFetches \cup UiFetches}

KnownMaxFeatures == {MaxFeatures(corpus) : corpus \in KnownCorpora}

VectorizedMemo ==
    [ties \in TieOrders |->
        [max_features \in KnownMaxFeatures |->
            [corpus \in KnownCorpora |->
                Vectorized(corpus, max_features, ties)]]]

\* build_similarity_matrix on the fields of the recommender: the fields it
\* leaves and whether it raised
build_similarity_matrix(df, sim, vec, ties) ==
    IF ~df.isNone /\ ~IsEmptyDF(df)
    THEN LET rows == Backfill(df.rows)
             corpus == Corpus(rows)
         IN  IF ~AnyNonEmpty(corpus)
             THEN [movies_df |-> DataFrame(rows), vectorizer |-> vec]
                  @@ EmptyCorpusPath(sim)
             ELSE LET fit == VectorizedMemo[ties][MaxFeatures(corpus)][corpus]
                  IN  [movies_df |-> DataFrame(rows),
                       vectorizer |->
                           [has_max |-> TRUE,
                            max_features |-> fit.max_features,
                            fitted |-> ~fit.ValueError,
                            vocabulary |-> fit.vocabulary]]
                      @@ (IF fit.ValueError THEN OnValueError(sim)
                          ELSE FitPath(fit))
    ELSE [movies_df |-> df, vectorizer |-> vec] @@ NoCatalogPath(sim)

\* ------------------------------------------------------------------ the UI
\* CinemaCloneAppGradio(api_base_url, max_selections, min_recommendations)
\* with the two widgets whose visibility the handlers set
CinemaCloneAppGradio(max_selections, min_recommendations) ==
    [max_selections |-> max_selections,
     min_recommendations |-> min_recommendations,
     selected_movie_ids |-> <<>>,
     all_movies_cache |-> <<>>,
     rec_btn_visible |-> FALSE,
     recommendations_visible |-> FALSE]

\* the thread that runs start_flask_server: its position, whether
\* prepare_movie_data has returned to it and whether it raised
FlaskThread(pc) == [pc |-> pc, prepared |-> FALSE, raised |-> FALSE]

\* the names run.py binds at module level before main() is called: its
\* imports (lines 1-28) and its assignments (lines 36-37)
ModuleGlobals ==
    {"os", "threading", "time", "load_dotenv", "config", "flask_app",
     "start_flask_server", "CinemaCloneAppGradio", "create_gradio_interface",
     "USE_NGROK", "NGROK_AUTH_TOKEN", "main"}

\* the names main() assigns somewhere in its body; Python makes each of them
\* a local of main() for the whole body (USE_NGROK by line 132)
MainLocals ==
    {"gradio_app_handler", "gradio_interface", "flask_thread",
     "initial_wait_time", "health_url", "response", "recommender_status",
     "public_url", "USE_NGROK", "e"}

\* the main thread of run.py: its position in main(), the locals assigned
\* so far, the exception in flight and the one that left main()
MainThread ==
    [pc |-> "create_gradio_interface", assigned |-> {}, pending |-> "none",
     raised |-> "none", launched |-> FALSE, share |-> FALSE]

\* ------------------------------------------------------------------ state
Threads == {"t1", "t2"}

\* a request thread: its position in the handler and the handler's locals;
\* seen_rows and seen_m keep the catalog and the matrix a query has read
IdleThread ==
    [pc |-> "idle", ids |-> <<>>, corpus |-> <<>>, built |-> NoneMatrix,
     valid |-> <<>>, sorted |-> <<>>, loc |-> LoopInit(<<>>),
     seen_rows |-> <<>>, seen_m |-> <<>>]

NoCall ==
    [op |-> "none", ids |-> <<>>, n |-> 0, raised |-> FALSE, value |-> <<>>,
     accepted |-> <<>>]

Init ==
    /\ movies_df = NoneDF
    /\ similarity_matrix = NoneMatrix
    /\ vectorizer = InitVectorizer
    /\ argsort_ties \in TieOrders
    /\ ret = NoCall
    /\ threads = [t \in Threads |-> IdleThread]
    /\ ui = CinemaCloneAppGradio(MAX_SELECTIONS,
                                 MIN_SELECTIONS_FOR_RECOMMENDATIONS)
    /\ server = FlaskThread("init")
    /\ run = MainThread

\* ------------------------------------------- the engine, one call at a time
\* a caller installs `rows` as the catalog and calls build_similarity_matrix()
Rebuild(rows) ==
    /\ ret.op = "none"
    /\ LET b == build_similarity_matrix(DataFrame(rows), similarity_matrix,
                                        vectorizer, argsort_ties)
       IN  /\ movies_df' = b.movies_df
           /\ similarity_matrix' = b.similarity_matrix
           /\ vectorizer' = b.vectorizer
           /\ ret' = [op |-> "build_similarity_matrix", ids |-> <<>>, n |-> 0,
                      raised |-> b.raised, value |-> <<>>, accepted |-> <<>>,
                      rows |-> rows]
    /\ UNCHANGED <<argsort_ties, threads, ui, server, run>>

\* prepare_movie_data() when fetch_movies() returned `fetched`
PrepareMovieData(fetched) ==
    /\ ret.op = "none"
    /\ LET b == build_similarity_matrix(DataFrame(PreparedRows(fetched)),
                                        similarity_matrix, vectorizer,
                                        argsort_ties)
       IN  /\ movies_df' = b.movies_df
           /\ similarity_matrix' = b.similarity_matrix
           /\ vectorizer' = b.vectorizer
           /\ ret' = [op |-> "prepare_movie_data", ids |-> <<>>, n |-> 0,
                      raised |-> b.raised, value |-> b.movies_df.rows,
                      accepted |-> <<>>, fetched |-> fetched]
    /\ UNCHANGED <<argsort_ties, threads, ui, server, run>>

\* GetRecommendations keeping the filtered frame as the catalog
GetRecommendationsFiltering(ids, n) ==
    /\ ret.op = "none"
    /\ LET r == get_recommendations(movies_df, similarity_matrix, ids, n,
                                    argsort_ties)
       IN  /\ ret' = [op |-> "get_recommendations", ids |-> ids, n |-> n,
                      raised |-> r.raised, value |-> r.value,
                      accepted |-> r.accepted]
           /\ movies_df' =
                  IF movies_df.isNone THEN movies_df
                  ELSE DataFrame(SelectSeq(movies_df.rows,
                                           LAMBDA row : row.id \in Range(ids)))
    /\ UNCHANGED <<similarity_matrix, vectorizer, argsort_ties, threads, ui, server, run>>

\* get_recommendations(ids, n)
GetRecommendations(ids, n) ==
    /\ ret.op = "none"
    /\ LET r == get_recommendations(movies_df, similarity_matrix, ids, n,
                                    argsort_ties)
       IN  ret' = [op |-> "get_recommendations", ids |-> ids, n |-> n,
                   raised |-> r.raised, value |-> r.value,
                   accepted |-> r.accepted]
    /\ UNCHANGED <<movies_df, similarity_matrix, vectorizer, argsort_ties,
                   threads, ui, server, run>>

\* get_recommendations(ids): num_recommendations takes its default
GetRecommendationsDefault(ids) ==
    /\ ret.op = "none"
    /\ LET r == get_recommendations(movies_df, similarity_matrix, ids,
                                    DefaultNumRecommendations, argsort_ties)
       IN  ret' = [op |-> "get_recommendations_default", ids |-> ids,
                   n |-> DefaultNumRecommendations, raised |-> r.raised,
                   value |-> r.value, accepted |-> r.accepted]
    /\ UNCHANGED <<movies_df, similarity_matrix, vectorizer, argsort_ties,
                   threads, ui, server, run>>

\* the caller takes the returned value and is free to call again
Return ==
    /\ ret.op # "none"
    /\ ret' = NoCall
    /\ UNCHANGED <<movies_df, similarity_matrix, vectorizer, argsort_ties,
                   threads, ui, server, run>>

Next ==
    \/ \E rows \in Catalogs : Rebuild(rows)
    \/ \E fetched \in Fetches : PrepareMovieData(fetched)
    \/ \E ids \in Selections, n \in TopNs : GetRecommendations(ids, n)
    \/ \E ids \in ScenarioSelections, n \in ScenarioTopNs :
           GetRecommendations(ids, n)
    \/ \E ids \in ScenarioSelections : GetRecommendationsDefault(ids)
    \/ Return

Spec == Init /\ [][Next]_vars

\* the engine on catalogs with records that lack their composite text
NextSparse ==
    \/ \E rows \in SparseCatalogs : Rebuild(rows)
    \/ \E ids \in Selections, n \in TopNs : GetRecommendations(ids, n)
    \/ Return

SpecSparse == Init /\ [][NextSparse]_vars

\* ------------------------------------- the Flask server, request threads
\* Each thread serves one request at a time; a step is one read or write of
\* a field of the shared recommender, with the local work that follows it.

Goto(t, pc) == threads' = [threads EXCEPT ![t].pc = pc]

Finish(t) == threads' = [threads EXCEPT ![t] = IdleThread]

\* GET /api/movies arrives
StartGetMovies(t) ==
    /\ threads[t].pc = "idle"
    /\ Goto(t, "gm_check")
    /\ UNCHANGED <<movies_df, similarity_matrix, vectorizer, argsort_ties, ret, ui, server, run>>

\* get_movies_route: `if recommender.movies_df is None or ...empty`
GmCheck(t) ==
    /\ threads[t].pc = "gm_check"
    /\ IF movies_df.isNone \/ IsEmptyDF(movies_df)
       THEN Goto(t, "pm_assign") ELSE Goto(t, "gm_respond")
    /\ UNCHANGED <<movies_df, similarity_matrix, vectorizer, argsort_ties, ret, ui, server, run>>

\* prepare_movie_data: fetch_movies() returns `fetched`, movies_df is assigned
PmAssign(t, fetched) ==
    /\ threads[t].pc = "pm_assign"
    /\ movies_df' = DataFrame(PreparedRows(fetched))
    /\ Goto(t, "bsm_check")
    /\ UNCHANGED <<similarity_matrix, vectorizer, argsort_ties, ret, ui, server, run>>

\* build_similarity_matrix: `if self.movies_df is not None and not ...empty`;
\* the else branch sets the matrix to None
BsmCheck(t) ==
    /\ threads[t].pc = "bsm_check"
    /\ IF ~movies_df.isNone /\ ~IsEmptyDF(movies_df)
       THEN /\ Goto(t, "bsm_corpus")
            /\ UNCHANGED similarity_matrix
       ELSE /\ similarity_matrix' =
                   NoCatalogPath(similarity_matrix).similarity_matrix
            /\ Goto(t, "gm_recheck")
    /\ UNCHANGED <<movies_df, vectorizer, argsort_ties, ret, ui, server, run>>

\* build_similarity_matrix: the column is recreated if missing, the corpus read
BsmCorpus(t) ==
    /\ threads[t].pc = "bsm_corpus"
    /\ movies_df' = DataFrame(Backfill(movies_df.rows))
    /\ threads' = [threads EXCEPT ![t].pc = "bsm_any",
                                  ![t].corpus = Corpus(Backfill(movies_df.rows))]
    /\ UNCHANGED <<similarity_matrix, vectorizer, argsort_ties, ret, ui, server, run>>

\* build_similarity_matrix: the all-empty corpus sets the matrix to None and
\* returns; otherwise a new vectorizer is assigned
BsmAny(t) ==
    /\ threads[t].pc = "bsm_any"
    /\ IF ~AnyNonEmpty(threads[t].corpus)
       THEN /\ similarity_matrix' =
                   EmptyCorpusPath(similarity_matrix).similarity_matrix
            /\ Goto(t, "gm_recheck")
            /\ UNCHANGED vectorizer
       ELSE /\ vectorizer' =
                   [has_max |-> TRUE,
                    max_features |-> MaxFeatures(threads[t].corpus),
                    fitted |-> FALSE, vocabulary |-> {}]
            /\ Goto(t, "bsm_fit")
            /\ UNCHANGED similarity_matrix
    /\ UNCHANGED <<movies_df, argsort_ties, ret, ui, server, run>>

\* build_similarity_matrix: self.vectorizer.fit_transform(corpus) fits the
\* vectorizer the field holds now; the matrix to assign is kept
BsmFit(t) ==
    /\ threads[t].pc = "bsm_fit"
    /\ LET fit == VectorizedMemo[argsort_ties][vectorizer.max_features]
                               [threads[t].corpus]
       IN  /\ vectorizer' =
                  IF fit.ValueError THEN vectorizer
                  ELSE [vectorizer EXCEPT !.fitted = TRUE,
                                          !.vocabulary = fit.vocabulary]
           /\ threads' =
                  [threads EXCEPT
                      ![t].pc = "bsm_assign",
                      ![t].built =
                          IF fit.ValueError
                          THEN OnValueError(similarity_matrix).similarity_matrix
                          ELSE FitPath(fit).similarity_matrix]
    /\ UNCHANGED <<movies_df, similarity_matrix, argsort_ties, ret, ui, server, run>>

\* build_similarity_matrix: self.similarity_matrix is assigned
BsmAssign(t) ==
    /\ threads[t].pc = "bsm_assign"
    /\ similarity_matrix' = threads[t].built
    /\ Goto(t, "gm_recheck")
    /\ UNCHANGED <<movies_df, vectorizer, argsort_ties, ret, ui, server, run>>

\* get_movies_route: the check after prepare_movie_data; 500 when it fails
GmRecheck(t) ==
    /\ threads[t].pc = "gm_recheck"
    /\ IF movies_df.isNone \/ IsEmptyDF(movies_df)
       THEN Finish(t) ELSE Goto(t, "gm_respond")
    /\ UNCHANGED <<movies_df, similarity_matrix, vectorizer, argsort_ties, ret, ui, server, run>>

\* get_movies_route: movies_df.to_dict('records') is returned
GmRespond(t) ==
    /\ threads[t].pc = "gm_respond"
    /\ Finish(t)
    /\ UNCHANGED <<movies_df, similarity_matrix, vectorizer, argsort_ties, ret, ui, server, run>>

\* POST /api/recommend arrives with a non-empty list of ids
StartRecommend(t, ids) ==
    /\ threads[t].pc = "idle"
    /\ threads' = [threads EXCEPT ![t].pc = "gr_guard", ![t].ids = ids]
    /\ UNCHANGED <<movies_df, similarity_matrix, vectorizer, argsort_ties, ret, ui, server, run>>

\* get_recommendations: the guard
GrGuard(t) ==
    /\ threads[t].pc = "gr_guard"
    /\ IF NoIndexOrCatalog(movies_df, similarity_matrix)
       THEN Finish(t) ELSE Goto(t, "gr_valid")
    /\ UNCHANGED <<movies_df, similarity_matrix, vectorizer, argsort_ties, ret, ui, server, run>>

\* get_recommendations: the rows of the selected ids are looked up
GrValid(t) ==
    /\ threads[t].pc = "gr_valid"
    /\ LET valid == valid_selected_indices(movies_df.rows, threads[t].ids)
       IN  IF NoValidSelection(valid) THEN Finish(t)
           ELSE threads' = [threads EXCEPT ![t].pc = "gr_scores",
                                           ![t].valid = valid,
                                           ![t].seen_rows = movies_df.rows]
    /\ UNCHANGED <<movies_df, similarity_matrix, vectorizer, argsort_ties, ret, ui, server, run>>

\* get_recommendations: the matrix is read and the ranking computed; a None
\* matrix or a row it lacks raises, and the route answers 500
GrScores(t) ==
    /\ threads[t].pc = "gr_scores"
    /\ IF similarity_matrix.isNone
          \/ ~RowsInMatrix(similarity_matrix.m, threads[t].valid)
       THEN Finish(t)
       ELSE threads' =
                [threads EXCEPT
                    ![t].pc = "gr_bound",
                    ![t].sorted =
                        sorted_movie_indices(
                            avg_similarity_scores(similarity_matrix.m,
                                                  threads[t].valid),
                            argsort_ties),
                    ![t].loc = LoopInit(threads[t].ids),
                    ![t].seen_m = similarity_matrix.m]
    /\ UNCHANGED <<movies_df, similarity_matrix, vectorizer, argsort_ties, ret, ui, server, run>>

\* get_recommendations: the next idx and its boundary check
GrBound(t) ==
    /\ threads[t].pc = "gr_bound"
    /\ IF LoopDone(threads[t].sorted, threads[t].loc)
       THEN Goto(t, "gr_return")
       ELSE IF IndexBeyond(movies_df.rows, threads[t].sorted, threads[t].loc)
       THEN threads' = [threads EXCEPT ![t].loc = LoopSkip(threads[t].loc)]
       ELSE Goto(t, "gr_body")
    /\ UNCHANGED <<movies_df, similarity_matrix, vectorizer, argsort_ties, ret, ui, server, run>>

\* get_recommendations: movies_df.iloc[idx] and the rest of the body; iloc
\* raises for a position the catalog no longer has
GrBody(t) ==
    /\ threads[t].pc = "gr_body"
    /\ IF IndexBeyond(movies_df.rows, threads[t].sorted, threads[t].loc)
       THEN Finish(t)
       ELSE threads' =
                [threads EXCEPT
                    ![t].pc = "gr_bound",
                    ![t].loc = LoopBody(movies_df.rows, threads[t].sorted,
                                        RouteNumRecommendations,
                                        threads[t].loc)]
    /\ UNCHANGED <<movies_df, similarity_matrix, vectorizer, argsort_ties, ret, ui, server, run>>

\* get_recommendations returns and the route answers
GrReturn(t) ==
    /\ threads[t].pc = "gr_return"
    /\ Finish(t)
    /\ UNCHANGED <<movies_df, similarity_matrix, vectorizer, argsort_ties, ret, ui, server, run>>

NextConc ==
    \E t \in Threads :
        \/ StartGetMovies(t)
        \/ GmCheck(t)
        \/ \E fetched \in RouteFetches : PmAssign(t, fetched)
        \/ BsmCheck(t)
        \/ BsmCorpus(t)
        \/ BsmAny(t)
        \/ BsmFit(t)
        \/ BsmAssign(t)
        \/ GmRecheck(t)
        \/ GmRespond(t)
        \/ \E ids \in RouteSelections : StartRecommend(t, ids)
        \/ GrGuard(t)
        \/ GrValid(t)
        \/ GrScores(t)
        \/ GrBound(t)
        \/ GrBody(t)
        \/ GrReturn(t)

SpecConc == Init /\ [][NextConc]_vars

\* ------------------------------------------- the API, one request at a time
\* str.strip() on the ids and texts a request or a record can carry
strip(id_val) ==
    IF id_val = " m1 " THEN "m1"
    ELSE IF id_val = " u1 " THEN "u1"
    ELSE IF id_val = " Six " THEN "Six"
    ELSE IF id_val = " " THEN ""
    ELSE id_val

\* what `request.json` is made from: no JSON body at all, a body that does not
\* parse, or a parsed JSON value (null, object, array, string). An object
\* carries 'selected_movies' (a list, a string or null) or some other key or
\* no key; `items` holds the elements of a list or array, or the text of a
\* string
Body(kind, has_key, other_key, value_type, items) ==
    [kind |-> kind, has_key |-> has_key, other_key |-> other_key,
     value_type |-> value_type, items |-> items]

RequestIds == {"m1", " m1 ", " ", "does-not-exist", "tt0372784"}

RequestLists == SeqsUpTo(RequestIds, MaxRouteSelected + 1)

RequestBodies ==
    {Body(k, FALSE, FALSE, "list", <<>>) : k \in {"absent", "malformed", "null"}}
        \cup {Body("object", FALSE, o, "list", <<>>) : o \in BOOLEAN}
        \cup {Body("object", TRUE, FALSE, "list", l) : l \in RequestLists}
        \cup {Body("object", TRUE, FALSE, t, <<>>) : t \in {"str", "null"}}
        \cup {Body(k, FALSE, FALSE, "list", l) :
                 k \in {"array", "string"},
                 l \in {<<>>, <<"selected_movies">>, <<"m1">>}}

\* `request.json`: None, the parsed value, or an exception. Without a JSON
\* body Flask returns None or raises, by its version
request_json(body, strict) ==
    IF body.kind = "malformed" \/ (body.kind = "absent" /\ strict)
    THEN [raised |-> TRUE, isNone |-> FALSE]
    ELSE [raised |-> FALSE, isNone |-> body.kind \in {"absent", "null"}]

\* `not data` for the parsed value
Falsy(body) ==
    \/ body.kind \in {"absent", "null"}
    \/ body.kind = "object" /\ ~body.has_key /\ ~body.other_key
    \/ body.kind \in {"array", "string"} /\ body.items = <<>>

\* `'selected_movies' not in data`: a key of an object, an element of an
\* array, a substring of a string
NotInData(body) ==
    IF body.kind = "object" THEN ~body.has_key
    ELSE body.items # <<"selected_movies">>

\* the ids left by [str(v).strip() for v in ids if str(v).strip()]
StrippedIds(items) ==
    LET stripped == [i \in 1..Len(items) |-> strip(items[i])]
    IN  SelectSeq(stripped, LAMBDA v : v # "")

HttpError(status) ==
    [status |-> status, is_list |-> FALSE, json |-> <<>>, ids |-> <<>>,
     value |-> <<>>, accepted |-> <<>>, called |-> FALSE]

\* jsonify(recommendations): the records as JSON objects in list order; the
\* fields of a record are strings
jsonify(records) == [k \in 1..Len(records) |-> records[k]]

\* recommend_movies_route on one request against the recommender's fields
recommend_movies_route(body, strict, df, sim, ties) ==
    LET data == request_json(body, strict)
    IN  IF data.raised THEN HttpError(500)
        ELSE IF Falsy(body) \/ NotInData(body) THEN HttpError(400)
        ELSE IF body.kind # "object" THEN HttpError(500)
        ELSE IF body.value_type # "list" THEN HttpError(400)
        ELSE LET selected_movie_ids == StrippedIds(body.items)
             IN  IF selected_movie_ids = <<>> THEN HttpError(400)
                 ELSE LET r == get_recommendations(df, sim, selected_movie_ids,
                                                   RouteNumRecommendations,
                                                   ties)
                      IN  IF r.raised
                          THEN [HttpError(500) EXCEPT
                                   !.ids = selected_movie_ids,
                                   !.called = TRUE]
                          ELSE [status |-> 200, is_list |-> TRUE,
                                json |-> jsonify(r.value),
                                ids |-> selected_movie_ids,
                                value |-> r.value, accepted |-> r.accepted,
                                called |-> TRUE]

\* POST /api/recommend
RecommendRoute(body, strict) ==
    /\ ret.op = "none"
    /\ \E h \in {recommend_movies_route(body, strict, movies_df,
                                        similarity_matrix, argsort_ties)} :
           ret' = [op |-> "recommend_movies_route", ids |-> h.ids,
                   n |-> RouteNumRecommendations, raised |-> FALSE,
                   value |-> h.value, accepted |-> h.accepted,
                   body |-> body, response |-> h]
    /\ UNCHANGED <<movies_df, similarity_matrix, vectorizer, argsort_ties,
                   threads, ui, server, run>>

NextApi ==
    \/ \E rows \in Catalogs : Rebuild(rows)
    \/ \E fetched \in Fetches : PrepareMovieData(fetched)
    \/ \E body \in RequestBodies, strict \in BOOLEAN : RecommendRoute(body, strict)
    \/ Return

SpecApi == Init /\ [][NextApi]_vars

\* ------------------------------------------------- the UI and its backend
\* re.sub(r'<[^>]*>', '', text) on the texts a record can carry
strip_tags(text) == IF text = "<b>Three</b>" THEN "Three" ELSE text

\* html.escape(text) on the texts a record can carry
html_escape(text) == IF text = "Tom & Jerry" THEN "Tom &amp; Jerry" ELSE text

RECURSIVE lstrip(_)
lstrip(t) == IF t # <<>> /\ Head(t) = SP THEN lstrip(Tail(t)) ELSE t

RECURSIVE rstrip(_)
rstrip(t) ==
    IF t # <<>> /\ t[Len(t)] = SP THEN rstrip(SubSeq(t, 1, Len(t) - 1)) ELSE t

\* sanitize_input on a text held as one string
sanitize_input(text) == strip(html_escape(strip_tags(text)))

\* sanitize_input on a text held as pieces: tags removed, the rest escaped,
\* the blanks at both ends stripped
sanitize_pieces(t) ==
    rstrip(lstrip(SelectSeq([i \in 1..Len(t) |-> html_escape(strip_tags(t[i]))],
                            LAMBDA piece : piece # "")))

\* validate_movie_data: 'id' and 'title' are present and not None
validate_movie_data(movie) == movie.id # PyNone /\ movie.title # PyNone

\* the record as the UI keeps it: the displayed fields sanitized
Sanitized(movie) ==
    [movie EXCEPT !.title = sanitize_input(@),
                  !.overview = sanitize_pieces(@),
                  !.genres = sanitize_pieces(@),
                  !.cast = sanitize_pieces(@)]

\* validated appending at the front
validatedNewestFirst(response_list) ==
    LET kept == SelectSeq(response_list, validate_movie_data)
    IN  [k \in 1..Len(kept) |-> Sanitized(kept[Len(kept) + 1 - k])]

\* the loop of fetch_movies_from_backend and get_recommendations_from_backend
\* over a list the backend answered
validated(response_list) ==
    LET kept == SelectSeq(response_list, validate_movie_data)
    IN  [k \in 1..Len(kept) |-> Sanitized(kept[k])]

\* the answer of get_movies_route once prepare_movie_data has left `b`: 500
\* when it raised or left no catalog, else movies_df.to_dict('records')
PreparedAnswer(b) ==
    [movies_df |-> b.movies_df,
     similarity_matrix |-> b.similarity_matrix,
     vectorizer |-> b.vectorizer,
     status |-> IF b.raised \/ b.movies_df.isNone \/ IsEmptyDF(b.movies_df)
                THEN 500 ELSE 200,
     json |-> IF b.raised THEN <<>> ELSE jsonify(b.movies_df.rows)]

\* get_movies_route called alone, with fetch_movies returning `fetched`: the
\* fields it leaves and its answer
get_movies_route(df, sim, vec, ties, fetched) ==
    IF df.isNone \/ IsEmptyDF(df)
    THEN PreparedAnswer(
             build_similarity_matrix(DataFrame(PreparedRows(fetched)), sim,
                                     vec, ties))
    ELSE [movies_df |-> df, similarity_matrix |-> sim, vectorizer |-> vec,
          status |-> 200, json |-> jsonify(df.rows)]

UiCall(op) ==
    [op |-> op, ids |-> ui.selected_movie_ids, n |-> 0, raised |-> FALSE,
     value |-> <<>>, accepted |-> <<>>, before |-> ui.selected_movie_ids]

\* `len(selected_movie_ids) >= max_selections` read as `>`
AtCapOffByOne(selected, cap) == Len(selected) > cap

\* `len(app_instance.selected_movie_ids) >= app_instance.max_selections`
AtCap(selected, cap) == Len(selected) >= cap

\* list.remove(x) dropping the last element whatever x is
RemoveLast(seq, x) == SubSeq(seq, 1, Len(seq) - 1)

\* list.remove(x): the first element equal to x is taken out; called only
\* when x is in the list
Remove(seq, x) ==
    LET i == CHOOSE k \in 1..Len(seq) :
                 seq[k] = x /\ \A j \in 1..(k - 1) : seq[j] # x
    IN  SubSeq(seq, 1, i - 1) \o SubSeq(seq, i + 1, Len(seq))

\* the selection after a click on movie_id_str (a stripped, non-blank id)
toggle(selected, movie_id_str, max_selections) ==
    IF movie_id_str \in Range(selected)
    THEN Remove(selected, movie_id_str)
    ELSE IF AtCap(selected, max_selections)
    THEN selected
    ELSE Append(selected, movie_id_str)

\* the "Load movies" button; `reachable` is whether the request got through
HandleLoadMovies(reachable, fetched) ==
    /\ ret.op = "none"
    /\ \E g \in {get_movies_route(movies_df, similarity_matrix, vectorizer,
                                  argsort_ties, fetched)} :
           /\ IF reachable
              THEN /\ movies_df' = g.movies_df
                   /\ similarity_matrix' = g.similarity_matrix
                   /\ vectorizer' = g.vectorizer
              ELSE UNCHANGED <<movies_df, similarity_matrix, vectorizer>>
           /\ ui' = [ui EXCEPT !.all_movies_cache =
                                   IF reachable /\ g.status = 200
                                   THEN validated(g.json) ELSE <<>>,
                               !.selected_movie_ids = <<>>,
                               !.recommendations_visible = FALSE]
           /\ ret' = UiCall("handle_load_movies")
    /\ UNCHANGED <<argsort_ties, threads, server, run>>

\* a click on a movie card
HandleToggleMovieSelection(clicked_movie_id) ==
    /\ ret.op = "none"
    /\ LET movie_id_str == strip(clicked_movie_id)
           selected == ui.selected_movie_ids
       IN  ui' =
              IF movie_id_str = "" THEN ui
              ELSE LET after == toggle(selected, movie_id_str,
                                       ui.max_selections)
                   IN  [ui EXCEPT !.selected_movie_ids = after,
                                  !.rec_btn_visible =
                                      Len(after) >= ui.min_recommendations]
    /\ ret' = UiCall("handle_toggle_movie_selection")
                 @@ [clicked |-> clicked_movie_id]
    /\ UNCHANGED <<movies_df, similarity_matrix, vectorizer, argsort_ties,
                   threads, server, run>>

\* the "Clear" button
HandleClearSelections ==
    /\ ret.op = "none"
    /\ ui' = [ui EXCEPT !.selected_movie_ids = <<>>,
                        !.rec_btn_visible = FALSE,
                        !.recommendations_visible = FALSE]
    /\ ret' = UiCall("handle_clear_selections")
    /\ UNCHANGED <<movies_df, similarity_matrix, vectorizer, argsort_ties,
                   threads, server, run>>

\* TooFewSelected asking only for a non-empty selection
TooFewSelectedOnlyEmpty(selected, min_recommendations) == selected = <<>>

\* `len(app_instance.selected_movie_ids) < app_instance.min_recommendations`
TooFewSelected(selected, min_recommendations) ==
    Len(selected) < min_recommendations

\* the "Get recommendations" button
HandleGetRecommendations(reachable) ==
    /\ ret.op = "none"
    /\ IF TooFewSelected(ui.selected_movie_ids, ui.min_recommendations)
       THEN /\ ui' = [ui EXCEPT !.recommendations_visible = FALSE]
            /\ ret' = UiCall("handle_get_recommendations")
                         @@ [requested |-> FALSE, answered |-> FALSE,
                             response |-> HttpError(0),
                             recommendations |-> <<>>]
       ELSE \E h \in {recommend_movies_route(
                          Body("object", TRUE, FALSE, "list",
                               ui.selected_movie_ids),
                          FALSE, movies_df, similarity_matrix,
                          argsort_ties)} :
            LET answered == reachable /\ h.status = 200 /\ h.is_list
            IN  /\ ui' = [ui EXCEPT !.recommendations_visible = TRUE]
                /\ ret' = [UiCall("handle_get_recommendations") EXCEPT
                              !.value = IF reachable THEN h.value ELSE <<>>,
                              !.accepted =
                                  IF reachable THEN h.accepted ELSE <<>>]
                             @@ [requested |-> TRUE, answered |-> answered,
                                 response |-> h,
                                 recommendations |->
                                     IF answered THEN validated(h.json)
                                     ELSE <<>>]
    /\ UNCHANGED <<movies_df, similarity_matrix, vectorizer, argsort_ties,
                   threads, server, run>>

\* the caps the UI is constructed with: the configured one and small ones
UiCaps == (1..MaxUiCap) \cup {MAX_SELECTIONS}

InitUi ==
    /\ movies_df = NoneDF
    /\ similarity_matrix = NoneMatrix
    /\ vectorizer = InitVectorizer
    /\ argsort_ties \in TieOrders
    /\ ret = NoCall
    /\ threads = [t \in Threads |-> IdleThread]
    /\ \E cap \in UiCaps :
           ui = CinemaCloneAppGradio(cap, MIN_SELECTIONS_FOR_RECOMMENDATIONS)
    /\ server = FlaskThread("init")
    /\ run = MainThread

NextUi ==
    \/ \E fetched \in UiFetches : PrepareMovieData(fetched)
    \/ \E reachable \in BOOLEAN, fetched \in UiFetches :
           HandleLoadMovies(reachable, fetched)
    \/ \E clicked_movie_id \in UiClicks :
           HandleToggleMovieSelection(clicked_movie_id)
    \/ HandleClearSelections
    \/ \E reachable \in BOOLEAN : HandleGetRecommendations(reachable)
    \/ Return

SpecUi == InitUi /\ [][NextUi]_vars

\* ------------------------------------------------------ start_flask_server
\* start_flask_server is called
StartFlaskServer ==
    /\ server.pc = "init"
    /\ server' = [server EXCEPT !.pc = "prepare_movie_data"]
    /\ UNCHANGED <<movies_df, similarity_matrix, vectorizer, argsort_ties,
                   ret, threads, ui, run>>

\* prepare_movie_data up to the assignment of movies_df; float(imdbRating)
\* raises for a rating that is no number, and the except clause of
\* start_flask_server ends the function
StartupAssign(fetched, rating_parses) ==
    /\ server.pc = "prepare_movie_data"
    /\ IF fetched # <<>> /\ ~rating_parses
       THEN /\ server' = [server EXCEPT !.pc = "except", !.raised = TRUE]
            /\ UNCHANGED movies_df
       ELSE /\ movies_df' = DataFrame(PreparedRows(fetched))
            /\ server' = [server EXCEPT !.pc = "build_similarity_matrix"]
    /\ UNCHANGED <<similarity_matrix, vectorizer, argsort_ties, ret, threads,
                   ui, run>>

\* the build_similarity_matrix call that ends prepare_movie_data
StartupBuild ==
    /\ server.pc = "build_similarity_matrix"
    /\ \E b \in {build_similarity_matrix(movies_df, similarity_matrix,
                                         vectorizer, argsort_ties)} :
           /\ movies_df' = b.movies_df
           /\ similarity_matrix' = b.similarity_matrix
           /\ vectorizer' = b.vectorizer
           /\ server' = IF b.raised
                        THEN [server EXCEPT !.pc = "except", !.raised = TRUE]
                        ELSE [server EXCEPT !.pc = "app.run",
                                            !.prepared = TRUE]
    /\ UNCHANGED <<argsort_ties, ret, threads, ui, run>>

\* app.run called from any position after the start of the function
AppRunReachedEarly(pc) == pc # "init"

\* the position of `app.run(...)`, after the try block's prepare_movie_data
AppRunReached(pc) == pc = "app.run"

\* app.run binds the socket; requests are accepted from here on
AppRun ==
    /\ AppRunReached(server.pc)
    /\ server.pc # "serving"
    /\ server' = [server EXCEPT !.pc = "serving"]
    /\ UNCHANGED <<movies_df, similarity_matrix, vectorizer, argsort_ties,
                   ret, threads, ui, run>>

\* the server accepts requests
Serving == server.pc = "serving"

\* GET /api/movies served alone
GetMoviesRoute(fetched) ==
    /\ ret.op = "none"
    /\ \E g \in {get_movies_route(movies_df, similarity_matrix, vectorizer,
                                  argsort_ties, fetched)} :
           /\ movies_df' = g.movies_df
           /\ similarity_matrix' = g.similarity_matrix
           /\ vectorizer' = g.vectorizer
           /\ ret' = [op |-> "get_movies_route", ids |-> <<>>, n |-> 0,
                      raised |-> FALSE, value |-> g.json, accepted |-> <<>>,
                      status |-> g.status]
    /\ UNCHANGED <<argsort_ties, threads, ui, server, run>>

NextStartup ==
    \/ StartFlaskServer
    \/ \E fetched \in RouteFetches, rating_parses \in BOOLEAN :
           StartupAssign(fetched, rating_parses)
    \/ StartupBuild
    \/ AppRun
    \/ Serving /\ \E fetched \in RouteFetches : GetMoviesRoute(fetched)
    \/ Serving /\ \E body \in RequestBodies, strict \in BOOLEAN :
           RecommendRoute(body, strict)
    \/ Return

SpecStartup == Init /\ [][NextStartup]_vars

\* ------------------------------------------------------------------ run.py
\* reading `name` in main(): a local that has not been assigned raises
\* UnboundLocalError, any other name that the module has not bound raises
\* NameError; "none" when the name is bound
Lookup(name, assigned) ==
    IF name \in MainLocals
    THEN IF name \in assigned THEN "none" ELSE "UnboundLocalError"
    ELSE IF name \in ModuleGlobals THEN "none" ELSE "NameError"

\* what requests.get(health_url, timeout=5) can give: a response of the
\* health route when the server accepts requests, or an exception
HealthOutcomes == {"healthy", "non-200", "ConnectionError", "other error"}

Answers(outcome) == outcome \in {"healthy", "non-200"}

\* an exception leaves main(): the main thread ends
Raise(r, exception) ==
    [r EXCEPT !.pc = "raised", !.raised = exception, !.pending = "none"]

\* one step of main() from position r.pc
main(r, outcome) ==
    CASE r.pc = "create_gradio_interface" ->
           [r EXCEPT !.pc = "flask_thread.start",
                     !.assigned = @ \cup {"gradio_app_handler",
                                          "gradio_interface"}]
      [] r.pc = "flask_thread.start" ->
           [r EXCEPT !.pc = "time.sleep",
                     !.assigned = @ \cup {"flask_thread"}]
      [] r.pc = "time.sleep" ->
           [r EXCEPT !.pc = "requests.get",
                     !.assigned = @ \cup {"initial_wait_time"}]
      [] r.pc = "requests.get" ->
           IF Lookup("requests", r.assigned) # "none"
           THEN [r EXCEPT !.pc = "except ConnectionError",
                          !.assigned = @ \cup {"health_url"},
                          !.pending = Lookup("requests", r.assigned)]
           ELSE IF Answers(outcome)
           THEN [r EXCEPT !.pc = "if USE_NGROK",
                          !.assigned = @ \cup {"health_url", "response"}]
           ELSE [r EXCEPT !.pc = "except ConnectionError",
                          !.assigned = @ \cup {"health_url"},
                          !.pending = outcome]
      [] r.pc = "except ConnectionError" ->
           IF Lookup("requests", r.assigned) # "none"
           THEN Raise(r, Lookup("requests", r.assigned))
           ELSE [r EXCEPT !.pc = "if USE_NGROK", !.pending = "none",
                          !.assigned = IF r.pending = "ConnectionError"
                                       THEN @ ELSE @ \cup {"e"}]
      [] r.pc = "if USE_NGROK" ->
           IF Lookup("USE_NGROK", r.assigned) # "none"
           THEN Raise(r, Lookup("USE_NGROK", r.assigned))
           ELSE [r EXCEPT !.pc = "gradio_interface.launch",
                          !.assigned = @ \cup {"public_url"}]
      [] r.pc = "gradio_interface.launch" ->
           [r EXCEPT !.pc = "launched", !.launched = TRUE, !.share = FALSE]
      [] OTHER -> r

\* the Flask thread is a daemon thread: it ends with the main thread
Daemon(srv, r) == IF r.pc = "raised" THEN [srv EXCEPT !.pc = "exited"] ELSE srv

\* the main thread takes its next step
MainStep ==
    /\ run.pc \notin {"raised", "launched"}
    /\ \E outcome \in HealthOutcomes :
           /\ outcome = "healthy" => Serving
           /\ outcome = "ConnectionError" => ~Serving
           /\ run' = main(run, outcome)
    /\ server' = Daemon(server, run')
    /\ UNCHANGED <<movies_df, similarity_matrix, vectorizer, argsort_ties,
                   ret, threads, ui>>

\* flask_thread.start() has been called
ThreadStarted == "flask_thread" \in run.assigned

NextRun ==
    \/ MainStep
    \/ ThreadStarted /\ StartFlaskServer
    \/ \E fetched \in RouteFetches, rating_parses \in BOOLEAN :
           StartupAssign(fetched, rating_parses)
    \/ StartupBuild
    \/ AppRun
    \/ Serving /\ \E fetched \in RouteFetches : GetMoviesRoute(fetched)
    \/ Serving /\ \E body \in RequestBodies, strict \in BOOLEAN :
           RecommendRoute(body, strict)
    \/ Return

SpecRun == Init /\ [][NextRun]_vars

\* the main thread keeps being scheduled until main() ends
SpecRunFair == SpecRun /\ WF_vars(MainStep)

\* ------------------------------------------------------------ properties
QueryOps == {"get_recommendations", "get_recommendations_default"}

Queried == ret.op \in QueryOps

Rebuilt == ret.op \in {"build_similarity_matrix", "prepare_movie_data"}

CatalogIds == {movies_df.rows[i].id : i \in 1..Len(movies_df.rows)}

SelectedInCatalog == Range(ret.ids) \cap CatalogIds

\* C1: no record returned by get_recommendations(S, n) has an identifier that
\* is in S.
C1_SelfExclusion ==
    Queried => \A k \in 1..Len(ret.value) : ret.value[k].id \notin Range(ret.ids)

C1_Witness ==
    /\ Queried
    /\ ret.value # <<>>
    /\ Cardinality(SelectedInCatalog) >= 2

\* the aggregate scores the returned call ranked by
ScoresOfCall ==
    avg_similarity_scores(similarity_matrix.m,
                          valid_selected_indices(movies_df.rows, ret.ids))

\* C3: in the result of get_recommendations the aggregate score of the item at
\* position k is >= that of the item at position k+1, and of two items with
\* equal score the one with the lower catalog index comes first.
C3_OrderedWithIndexTieBreak ==
    (Queried /\ ret.value # <<>>) =>
        \A k \in 1..(Len(ret.accepted) - 1) :
            \/ ScoresOfCall[ret.accepted[k]] > ScoresOfCall[ret.accepted[k + 1]]
            \/ /\ ScoresOfCall[ret.accepted[k]] = ScoresOfCall[ret.accepted[k + 1]]
               /\ ret.accepted[k] < ret.accepted[k + 1]

\* C4: with an index built and a selected id in the catalog, the result has
\* exactly min(n, number of distinct catalog ids not in S) records, and the
\* call does not raise.
C4_SizeBound ==
    (Queried /\ ~NoIndexOrCatalog(movies_df, similarity_matrix)
             /\ SelectedInCatalog # {}) =>
        /\ ~ret.raised
        /\ Len(ret.value) = Min(ret.n, Cardinality(CatalogIds \ Range(ret.ids)))

C4_Witness ==
    /\ Queried
    /\ ~NoIndexOrCatalog(movies_df, similarity_matrix)
    /\ SelectedInCatalog # {}
    /\ Len(ret.value) < ret.n
    /\ Len(movies_df.rows) > Cardinality(CatalogIds)

\* C5: when the similarity matrix is absent, or the catalog is None or empty,
\* get_recommendations returns [] and does not raise.
C5_EmptyCatalogSafety ==
    (Queried /\ (similarity_matrix.isNone \/ movies_df.isNone
                   \/ IsEmptyDF(movies_df))) =>
        (~ret.raised /\ ret.value = <<>>)

C5_Witness ==
    /\ Queried
    /\ similarity_matrix.isNone
    /\ ~movies_df.isNone
    /\ SelectedInCatalog # {}
    /\ ret.value = <<>>

SetToSeq(S) == CHOOSE f \in [1..Cardinality(S) -> S] : Range(f) = S

\* C6: get_recommendations(S, n) equals get_recommendations(S', n) for S' the
\* distinct ids of S that occur in the catalog, and is [] when S' is empty.
C6_SelectionNormalisation ==
    Queried =>
        LET normal == SetToSeq(SelectedInCatalog)
            r == get_recommendations(movies_df, similarity_matrix, normal,
                                     ret.n, argsort_ties)
        IN  /\ ret.raised = r.raised
            /\ ret.value = r.value
            /\ (normal = <<>> => (~ret.raised /\ ret.value = <<>>))

C6_Witness ==
    /\ Queried
    /\ ret.value # <<>>
    /\ Len(ret.ids) > Cardinality(SelectedInCatalog)
    /\ "does-not-exist" \in Range(ret.ids)

FeatureText(row) ==
    IF row.has_combined_features THEN row.combined_features ELSE <<>>

\* the counts of one text over the fitted vocabulary
CountRow(text, vocabulary) ==
    LET columns == SelectSeq(TermOrder, LAMBDA t : t \in vocabulary)
        terms == Analyze(text)
    IN  [c \in 1..Len(columns) |-> CountOf(columns[c], terms)]

\* C7: after a completed rebuild a present similarity matrix is N x N for the
\* N records of the catalog, and entry (i, j) is the similarity computed from
\* the composite texts of the records at positions i and j.
C7_RowCorrespondence ==
    (Rebuilt /\ ~similarity_matrix.isNone) =>
        LET rows == movies_df.rows
            N == Len(rows)
            m == similarity_matrix.m
            v == [i \in 1..N |->
                    CountRow(FeatureText(rows[i]), vectorizer.vocabulary)]
        IN  /\ ~movies_df.isNone
            /\ Len(m) = N
            /\ \A i \in 1..N :
                   /\ Len(m[i]) = N
                   /\ \A j \in 1..N : m[i][j] = Cosine(v[i], v[j])

C7_Witness ==
    /\ Rebuilt
    /\ ~similarity_matrix.isNone
    /\ Len(movies_df.rows) = MaxMovies
    /\ similarity_matrix.m[1][2] # similarity_matrix.m[2][3]

\* the matrix build_similarity_matrix derives from a catalog
DerivedFrom(rows, ties) ==
    LET corpus == Corpus(Backfill(rows))
        fit == VectorizedMemo[ties][MaxFeatures(corpus)][corpus]
    IN  IF fit.ValueError THEN <<>> ELSE fit.similarity

\* C8: a rebuild that returns leaves the similarity matrix absent or derived
\* from the current catalog; no matrix of an earlier catalog survives it.
C8_NoStaleIndex ==
    Rebuilt =>
        \/ similarity_matrix.isNone
        \/ /\ ~movies_df.isNone
           /\ similarity_matrix.m = DerivedFrom(movies_df.rows, argsort_ties)

C8_Witness ==
    /\ Rebuilt
    /\ similarity_matrix.isNone
    /\ ~movies_df.isNone
    /\ Len(movies_df.rows) >= 2
    /\ vectorizer.has_max

\* C9: get_recommendations leaves the catalog, the similarity matrix and the
\* vectorizer unchanged.
C9_QueryReadOnly ==
    [][(ret'.op \in QueryOps /\ ret.op = "none")
           => UNCHANGED <<movies_df, similarity_matrix, vectorizer>>]_vars

C9_Witness ==
    /\ Queried
    /\ Len(ret.value) = MaxTopN
    /\ vectorizer.fitted

\* no composite text of the catalog yields a term
NoVocabulary(rows) ==
    \A i \in 1..Len(rows) : Analyze(FeatureText(rows[i])) = <<>>

\* C10: build_similarity_matrix does not raise; a catalog whose texts are all
\* empty, blank or stop words is left with no index, and get_recommendations
\* then returns [].
C10_SoftFailBuild ==
    /\ Rebuilt => ~ret.raised
    /\ (~movies_df.isNone /\ NoVocabulary(movies_df.rows)) =>
           /\ similarity_matrix.isNone
           /\ Queried => (~ret.raised /\ ret.value = <<>>)

C10_Witness ==
    /\ Queried
    /\ ~movies_df.isNone
    /\ NoVocabulary(movies_df.rows)
    /\ \E i \in 1..Len(movies_df.rows) : FeatureText(movies_df.rows[i]) # <<>>
    /\ SelectedInCatalog # {}
    /\ ret.value = <<>>

\* C2: a get_recommendations call that interleaves with prepare_movie_data
\* never pairs a catalog of one snapshot with a similarity matrix derived from
\* another.
C2_AtomicSwap ==
    \A t \in Threads :
        threads[t].pc \in {"gr_bound", "gr_body", "gr_return"} =>
            threads[t].seen_m = DerivedFrom(threads[t].seen_rows, argsort_ties)

\* C11: on every state a completed rebuild leaves, and for every list of ids,
\* get_recommendations returns a list and does not raise.
C11_NoExceptionAcrossBoundary == Queried => ~ret.raised

C11_Witness ==
    /\ Queried
    /\ ~similarity_matrix.isNone
    /\ Len(ret.ids) = 2 /\ ret.ids[1] = ret.ids[2]
    /\ CatalogIds \subseteq Range(ret.ids)
    /\ Len(movies_df.rows) >= 2
    /\ ret.value = <<>>

\* C12: whatever rebuilds came before, a query answers as it does on a
\* recommender built afresh from the same catalog, so rebuilds from identical
\* catalogs followed by the same query return identical sequences, ties
\* included.
C12_Determinism ==
    Queried =>
        LET fresh == build_similarity_matrix(movies_df, NoneMatrix,
                                             InitVectorizer, argsort_ties)
            r == get_recommendations(fresh.movies_df, fresh.similarity_matrix,
                                     ret.ids, ret.n, argsort_ties)
        IN  /\ ret.raised = r.raised
            /\ ret.value = r.value

C12_Witness ==
    /\ Queried
    /\ Len(ret.accepted) >= 2
    /\ ScoresOfCall[ret.accepted[1]] = ScoresOfCall[ret.accepted[2]]
    /\ ret.value[1].id # ret.value[2].id

\* C13: the catalog prepare_movie_data installs has pairwise distinct ids.
C13_UniqueCatalogIds ==
    ret.op = "prepare_movie_data" =>
        \A i, j \in 1..Len(movies_df.rows) :
            i # j => movies_df.rows[i].id # movies_df.rows[j].id

\* C14: no two records of a result carry the same id, also when several rows
\* of the catalog do.
C14_NoDuplicateResults ==
    Queried =>
        \A i, j \in 1..Len(ret.value) :
            i # j => ret.value[i].id # ret.value[j].id

C14_Witness ==
    /\ Queried
    /\ ret.n >= 2
    /\ \E k \in 1..Len(ret.value) :
           Cardinality({i \in 1..Len(movies_df.rows) :
                           movies_df.rows[i].id = ret.value[k].id}) >= 2

\* C15: get_recommendations called without a count returns
\* min(10, eligible items) records.
C15_DefaultResultSize ==
    (ret.op = "get_recommendations_default"
        /\ ~NoIndexOrCatalog(movies_df, similarity_matrix)
        /\ SelectedInCatalog # {}) =>
        Len(ret.value) = Min(DEFAULT_NUM_RECOMMENDATIONS,
                             Cardinality(CatalogIds \ Range(ret.ids)))

\* C16: when prepare_movie_data returns the catalog is not empty; with no
\* fetched record it is the fallback set with a matrix of one row and column
\* per fallback record, and get_recommendations answers on it.
C16_FallbackCatalog ==
    /\ ret.op = "prepare_movie_data" =>
           /\ ~movies_df.isNone /\ movies_df.rows # <<>>
           /\ ret.fetched = <<>> =>
                  /\ movies_df.rows = fallback_movies_data
                  /\ ~similarity_matrix.isNone
                  /\ Len(similarity_matrix.m) = Len(fallback_movies_data)
                  /\ \A i \in 1..Len(similarity_matrix.m) :
                         Len(similarity_matrix.m[i]) = Len(fallback_movies_data)
    /\ (Queried /\ ~movies_df.isNone /\ movies_df.rows = fallback_movies_data
               /\ SelectedInCatalog # {}) =>
           /\ ~ret.raised
           /\ Len(ret.value) =
                  Min(ret.n, Len(fallback_movies_data)
                                 - Cardinality(SelectedInCatalog))

C16_Witness ==
    /\ Queried
    /\ ~movies_df.isNone /\ movies_df.rows = fallback_movies_data
    /\ ret.ids = <<"tt0372784">>
    /\ Len(ret.value) = ret.n

\* C17: on the fallback catalog, get_recommendations(["tt0372784",
\* "tt0468569"], n) with n >= 3 returns tt1345836, then tt0144084, then
\* tt0246578, and neither selected id.
C17_FallbackScenario ==
    (Queried /\ ~movies_df.isNone /\ movies_df.rows = fallback_movies_data
             /\ ret.ids = <<"tt0372784", "tt0468569">> /\ ret.n >= 3) =>
        [k \in 1..Len(ret.value) |-> ret.value[k].id]
            = <<"tt1345836", "tt0144084", "tt0246578">>

C17_Witness ==
    /\ Queried
    /\ ~movies_df.isNone /\ movies_df.rows = fallback_movies_data
    /\ ret.ids = <<"tt0372784", "tt0468569">>
    /\ ret.n = 3
    /\ Len(ret.value) = 3

UiAsked == ret.op = "handle_get_recommendations" /\ ret.requested

\* the strictly increasing maps of 1..m into 1..n
Increasing(m, n) ==
    {f \in [1..m -> 1..n] : \A i, j \in 1..m : i < j => f[i] < f[j]}

\* the record the UI keeps is the one the route answered: same id, and every
\* field left of those the UI does not rewrite for display
SameMovie(kept, sent) ==
    /\ kept.id = sent.id
    /\ kept.combined_features = sent.combined_features
    /\ kept.has_combined_features = sent.has_combined_features

\* every record the engine returned is the catalog record at its row, and
\* the route answered that sequence
EngineAndRoutePayload ==
    /\ Len(ret.value) = Len(ret.accepted)
    /\ \A k \in 1..Len(ret.value) :
           ret.value[k] = movies_df.rows[ret.accepted[k]]
    /\ ret.answered => ret.response.json = ret.value

\* C18 as stated: every record get_recommendations returns equals the
\* catalog record at its row, in the order accepted; /api/recommend answers
\* that same sequence; the UI's validated list is an order-preserving
\* subsequence of it, record for record.
C18_PayloadAndOrder ==
    UiAsked =>
        /\ EngineAndRoutePayload
        /\ \E f \in Increasing(Len(ret.recommendations),
                               Len(ret.response.json)) :
               \A k \in 1..Len(ret.recommendations) :
                   ret.recommendations[k] = ret.response.json[f[k]]

\* C18, amended: every record get_recommendations returns equals the catalog
\* record at its row, in the order accepted; /api/recommend answers that same
\* sequence; the UI's validated list is an order-preserving subsequence of it
\* by id, with every field but the displayed title, overview, genres and cast
\* unchanged.
C18_PayloadAndOrderById ==
    UiAsked =>
        /\ EngineAndRoutePayload
        /\ \E f \in Increasing(Len(ret.recommendations),
                               Len(ret.response.json)) :
               \A k \in 1..Len(ret.recommendations) :
                   SameMovie(ret.recommendations[k], ret.response.json[f[k]])

\* the route answered three records, the UI kept two of them, and one it kept
\* is not the record as sent
C18_Witness ==
    /\ UiAsked
    /\ ret.answered
    /\ Len(ret.response.json) = 3
    /\ Len(ret.recommendations) = 2
    /\ \E k \in 1..2 : ret.recommendations[k] \notin Range(ret.response.json)

\* the request is one the route is to refuse: body missing or empty, no
\* 'selected_movies', not a list, or no id left after stripping
BadRequest(body) ==
    \/ body.kind \in {"absent", "malformed", "null"}
    \/ body.kind \in {"array", "string"}
    \/ body.kind = "object" /\ ~body.has_key
    \/ body.kind = "object" /\ body.has_key /\ body.value_type # "list"
    \/ body.kind = "object" /\ body.has_key /\ body.value_type = "list"
          /\ StrippedIds(body.items) = <<>>

\* C19: /api/recommend answers 400 exactly for a request it is to refuse, and
\* otherwise 200 with a list, the empty list when there is no index or no
\* eligible record.
C19_RecommendRouteStatus ==
    ret.op = "recommend_movies_route" =>
        /\ ret.response.status = 400 <=> BadRequest(ret.body)
        /\ ~BadRequest(ret.body) =>
               /\ ret.response.status = 200
               /\ ret.response.is_list
               /\ (NoIndexOrCatalog(movies_df, similarity_matrix)
                      \/ CatalogIds \subseteq Range(ret.ids)) =>
                      ret.response.json = <<>>

\* C20: after any sequence of load, toggle and clear actions the number of
\* selected ids is at most max_selections, and toggling an unselected id at
\* the cap leaves the selection unchanged.
C20_SelectionCap ==
    /\ Len(ui.selected_movie_ids) <= ui.max_selections
    /\ (/\ ret.op = "handle_toggle_movie_selection"
        /\ strip(ret.clicked) \notin Range(ret.before)
        /\ Len(ret.before) >= ui.max_selections)
           => ui.selected_movie_ids = ret.before

\* an unselected id is clicked with the selection at a cap below the
\* configured one
C20_Witness ==
    /\ ret.op = "handle_toggle_movie_selection"
    /\ ui.max_selections < MAX_SELECTIONS
    /\ Len(ret.before) = ui.max_selections
    /\ strip(ret.clicked) # ""
    /\ strip(ret.clicked) \notin Range(ret.before)
    /\ ui.selected_movie_ids = ret.before

\* C21: the UI sends a recommendation request only with at least
\* min_recommendations ids selected; with fewer, handle_get_recommendations
\* makes no backend call and leaves the recommendations hidden.
C21_MinimumSelection ==
    ret.op = "handle_get_recommendations" =>
        /\ ui.min_recommendations = MIN_SELECTIONS_FOR_RECOMMENDATIONS
        /\ ret.requested <=> Len(ret.before) >= ui.min_recommendations
        /\ ~ret.requested => ~ui.recommendations_visible /\ ~ret.answered

\* the button handler ran with some but too few ids selected
C21_Witness ==
    /\ ret.op = "handle_get_recommendations"
    /\ Len(ret.before) > 0
    /\ Len(ret.before) < ui.min_recommendations
    /\ ~ret.requested
    /\ ~ui.recommendations_visible

\* C22: a get_recommendations call that has read a similarity matrix whose
\* size differs from that of the catalog it read fails hard; it does not
\* reach its return of a list.
C22_MismatchIsHardFailure ==
    \A t \in Threads :
        threads[t].pc = "gr_return" =>
            Len(threads[t].seen_m) = Len(threads[t].seen_rows)

\* the composite text of a record, computed from genres, cast and overview
\* when the record lacks it
TextOnDemand(row) ==
    IF row.has_combined_features THEN row.combined_features
    ELSE JoinFeatures(row.genres, row.cast, row.overview)

\* C23: build_similarity_matrix on a catalog in which a record lacks its
\* composite text (the whole column, or only some records) vectorizes for
\* that record the text computed from its genres, cast and overview, and the
\* build does not fail.
C23_LazyBackfill ==
    ret.op = "build_similarity_matrix" =>
        LET rows == ret.rows
            N == Len(rows)
            v == [i \in 1..N |->
                    CountRow(TextOnDemand(rows[i]), vectorizer.vocabulary)]
        IN  /\ ~ret.raised
            /\ similarity_matrix.isNone =>
                   \A i \in 1..N : Analyze(TextOnDemand(rows[i])) = <<>>
            /\ ~similarity_matrix.isNone =>
                   /\ Len(similarity_matrix.m) = N
                   /\ \A i, j \in 1..N :
                          similarity_matrix.m[i][j] = Cosine(v[i], v[j])

\* a text with no word: empty, or blanks only
Blank(text) == \A k \in 1..Len(text) : text[k] = SP

\* the texts of the catalog the rebuild has left
CatalogTexts == [i \in 1..Len(movies_df.rows) |-> FeatureText(movies_df.rows[i])]

\* the all-empty-corpus check has passed
PastEmptyCheck ==
    /\ Rebuilt
    /\ ~movies_df.isNone
    /\ \E i \in 1..Len(CatalogTexts) : CatalogTexts[i] # <<>>

\* the distinct whitespace-delimited tokens of the texts
DistinctTokens ==
    (UNION {Range(CatalogTexts[i]) : i \in 1..Len(CatalogTexts)}) \ {SP}

\* C24 as stated: whenever the all-empty-corpus check has passed, the corpus
\* has a whitespace-delimited token, so max_features is not 0 before the
\* floor is applied.
C24_FloorUnreachable ==
    PastEmptyCheck => \E i \in 1..Len(CatalogTexts) : ~Blank(CatalogTexts[i])

\* C24, amended: past the all-empty-corpus check the token count is 0 exactly
\* when every text is blank; the floor then makes the cap 1 and the build
\* leaves no matrix without raising; otherwise the cap is the number of
\* distinct tokens, at most 5000.
C24_FloorWhenAllBlank ==
    PastEmptyCheck =>
        /\ vectorizer.has_max
        /\ ~ret.raised
        /\ IF \A i \in 1..Len(CatalogTexts) : Blank(CatalogTexts[i])
           THEN /\ vectorizer.max_features = MaxFeaturesFloor
                /\ similarity_matrix.isNone
           ELSE vectorizer.max_features =
                    Min(MaxFeaturesCap, Cardinality(DistinctTokens))

\* prepare_movie_data has built a catalog from responses with empty Genre,
\* Actors and Plot: the texts are two blanks each
C24_Witness ==
    /\ ret.op = "prepare_movie_data"
    /\ PastEmptyCheck
    /\ \A i \in 1..Len(CatalogTexts) : CatalogTexts[i] = <<SP, SP>>
    /\ vectorizer.max_features = MaxFeaturesFloor

\* the positions of a request thread inside prepare_movie_data
PreparePcs ==
    {"pm_assign", "bsm_check", "bsm_corpus", "bsm_any", "bsm_fit",
     "bsm_assign"}

\* C25: of the /api/movies requests that arrive while the catalog is None or
\* empty at most one runs prepare_movie_data, and none is about to assign a
\* catalog over one that another request has installed.
C25_PrepareAtMostOnce ==
    /\ Cardinality({t \in Threads : threads[t].pc \in PreparePcs}) <= 1
    /\ \A t \in Threads :
           threads[t].pc = "pm_assign" =>
               movies_df.isNone \/ IsEmptyDF(movies_df)

\* a request has been served
Served == ret.op \in {"get_movies_route", "recommend_movies_route"}

\* C26: under start_flask_server no request is served before
\* prepare_movie_data has returned, and if the startup rebuild raises the
\* server never starts.
C26_StartupOrdering ==
    /\ Served => server.prepared
    /\ Serving => server.prepared
    /\ server.raised => ~Serving /\ ~Served

\* a request is answered from the catalog the startup rebuild installed
C26_Witness ==
    /\ ret.op = "recommend_movies_route"
    /\ server.prepared
    /\ ret.response.status = 200
    /\ ret.value # <<>>

\* C27: in main() of run.py, once the Flask thread is started and the
\* startup wait has elapsed, the Gradio interface is eventually launched,
\* whatever the health check gives, and with ngrok disabled.
C27_GradioEventuallyLaunched ==
    (run.pc = "requests.get") ~> (run.launched /\ ~run.share)

\* C28: after any sequence of load, toggle, clear and get-recommendations
\* actions the recommendation button is visible only if at least
\* min_recommendations movies are selected.
C28_RecButtonGuard ==
    ui.rec_btn_visible =>
        Len(ui.selected_movie_ids) >= ui.min_recommendations

NoDuplicates(seq) ==
    \A i, j \in 1..Len(seq) : i # j => seq[i] # seq[j]

Toggled == ret.op = "handle_toggle_movie_selection" /\ strip(ret.clicked) # ""

\* C29: selected_movie_ids never holds an id twice; a toggle of a selected
\* id removes it and a toggle of an unselected id below the cap adds it, so
\* two toggles of one id below the cap give back the same set of ids; load
\* and clear leave the selection empty.
C29_ToggleAlgebra ==
    LET now == ui.selected_movie_ids
        cap == ui.max_selections
    IN  /\ NoDuplicates(now)
        /\ Toggled /\ strip(ret.clicked) \in Range(ret.before) =>
               /\ Range(now) = Range(ret.before) \ {strip(ret.clicked)}
               /\ Len(now) = Len(ret.before) - 1
        /\ Toggled /\ strip(ret.clicked) \notin Range(ret.before)
                   /\ Len(ret.before) < cap =>
               now = Append(ret.before, strip(ret.clicked))
        /\ \A clicked \in UiClicks :
               strip(clicked) # "" /\ Len(now) < cap =>
                   Range(toggle(toggle(now, strip(clicked), cap),
                                strip(clicked), cap)) = Range(now)
        /\ ret.op \in {"handle_load_movies", "handle_clear_selections"} =>
               now = <<>>

\* a click on the first of two selected movies has taken it out
C29_Witness ==
    /\ Toggled
    /\ Len(ret.before) >= 2
    /\ ret.before[1] = strip(ret.clicked)
    /\ ui.selected_movie_ids = Tail(ret.before)

====
